---- MODULE Spec2Model ----
(***************************************************************************)
(* The live-update core of server_tasks.py: the module-level registry      *)
(* `subscribers` (username -> list of Queue), sse_publish, and the         *)
(* /api/stream view with its two generators (_end and stream), driven by   *)
(* the WSGI server that iterates, writes and closes the response.          *)
(*                                                                         *)
(* Strings are sequences of one-character strings, so that str.strip() is  *)
(* computed and not assumed.  A Queue object is identified by the number   *)
(* of the session that created it (api_stream creates exactly one).  An    *)
(* event is identified by the number of the sse_publish call that carries  *)
(* it.                                                                     *)
(***************************************************************************)
EXTENDS Integers, Sequences, FiniteSets, TLC

\* ------------------------------------------------------------------ bounds
\* number of /api/stream requests that arrive
MaxSessions == 2
\* number of sse_publish calls that are made
MaxEvents == 2
\* number of requests to the task handlers that are made
MaxCalls == 2

Sessions == 1..MaxSessions

\* ----------------------------------------------------------------- strings
ADMIN == <<"a", "d", "m", "i", "n">>
ANA == <<"A", "n", "a">>
BOB == <<"B", "o", "b">>

Whitespace == {" ", "\t", "\n"}

RECURSIVE LStrip(_)
LStrip(s) == IF s # <<>> /\ Head(s) \in Whitespace THEN LStrip(Tail(s)) ELSE s

RECURSIVE RStrip(_)
RStrip(s) ==
    IF s # <<>> /\ s[Len(s)] \in Whitespace
    THEN RStrip(SubSeq(s, 1, Len(s) - 1))
    ELSE s

\* faulty variant of Strip: the argument is used as it came
StripIdentity(s) == s

\* str.strip() with no argument
Strip(s) == RStrip(LStrip(s))

\* the letters that occur in the names of the model
Lowers == <<"a", "b", "d", "i", "m", "n", "o">>
Uppers == <<"A", "B", "D", "I", "M", "N", "O">>

UpperChar(c) ==
    IF \E i \in DOMAIN Lowers : Lowers[i] = c
    THEN Uppers[CHOOSE i \in DOMAIN Lowers : Lowers[i] = c]
    ELSE c

LowerChar(c) ==
    IF \E i \in DOMAIN Uppers : Uppers[i] = c
    THEN Lowers[CHOOSE i \in DOMAIN Uppers : Uppers[i] = c]
    ELSE c

\* str.lower()
Lower(s) == [i \in DOMAIN s |-> LowerChar(s[i])]

\* str.capitalize(): first character upper case, the rest lower case
Capitalize(s) ==
    [i \in DOMAIN s |-> IF i = 1 THEN UpperChar(s[i]) ELSE LowerChar(s[i])]

\* the query strings of the /api/stream requests that are tried: without a
\* username parameter, blank, the administrative key, a user of init_db
\* (padded with blanks) and a name no directory below holds
StreamRequests ==
    { [has |-> FALSE, username |-> <<>>],
      [has |-> TRUE, username |-> <<" ">>],
      [has |-> TRUE, username |-> ADMIN],
      [has |-> TRUE, username |-> ANA \o <<" ">>],
      [has |-> TRUE, username |-> BOB] }

\* request.args.get("username", "")
ArgsGet(r) == IF r.has THEN r.username ELSE <<>>

\* the keys sse_publish is called with
PublishKeys == {ADMIN, ANA}

\* keys that differ from those in case only
OtherKeys == {Lower(ANA), Capitalize(ADMIN)}

\* contents of the users table: as init_db leaves it (the users other than
\* admin and Ana play no part), and the same without the admin row
UserDirs == { {ANA}, {ADMIN, ANA} }

\* ---------------------------------------------------------------- messages
HelloMsg == [event |-> "hello", data |-> [ok |-> TRUE]]
ErrorMsg == [event |-> "error", data |-> [error |-> "user_not_found"]]
TaskMsg(e) == [event |-> "task", data |-> [id |-> e]]

\* ------------------------------------------------------------------- state
VARIABLES
    users,        \* usernames in the users table
    subscribers,  \* the registry: key -> list of queues
    req,          \* per session: the query string of its request
    pc,           \* per session: where its request / generator stands
    key,          \* per session: the stripped username
    status,       \* per session: HTTP status of the response (0: none yet)
    registered,   \* per session: its queue was appended to the registry
    connected,    \* per session: the client's connection is open
    chan,         \* per session: contents of its Queue
    out,          \* per session: the messages its generator yielded
    removed,      \* per session: times the finally block removed its queue
    pubs,         \* the sse_publish calls made so far, in call order
    tasks,        \* the tasks table: task id -> row
    calls         \* the requests to the task handlers so far, in order

vars == <<users, subscribers, req, pc, key, status, registered, connected, chan,
          out, removed, pubs, tasks, calls>>

\* --------------------------------------------------------------- registry
\* faulty variant of RegistryGet: the key is looked up without regard to case
RegistryGetAnyCase(reg, k) ==
    IF \E x \in DOMAIN reg : Lower(x) = Lower(k)
    THEN reg[CHOOSE x \in DOMAIN reg : Lower(x) = Lower(k)]
    ELSE <<>>

\* subscribers.get(username, []): the key's list, or an empty list
RegistryGet(reg, k) == IF k \in DOMAIN reg THEN reg[k] ELSE <<>>

\* faulty variant of AfterIndex: the key is bound to a new empty list
AfterIndexFresh(reg, k) ==
    [x \in DOMAIN reg \cup {k} |-> IF x = k THEN <<>> ELSE reg[x]]

\* faulty variant of AfterGet: the lookup is written subscribers[username]
AfterGetInserting(reg, k) ==
    IF k \in DOMAIN reg
    THEN reg
    ELSE [x \in DOMAIN reg \cup {k} |-> IF x = k THEN <<>> ELSE reg[x]]

\* the registry after subscribers.get(username, []): dict.get inserts nothing
AfterGet(reg, k) == reg

\* the registry after evaluating subscribers[username]: a defaultdict(list)
\* inserts an empty list under a missing key
AfterIndex(reg, k) ==
    IF k \in DOMAIN reg
    THEN reg
    ELSE [x \in DOMAIN reg \cup {k} |-> IF x = k THEN <<>> ELSE reg[x]]

\* subscribers[username].append(q)
RegistryAppend(reg, k, q) == [AfterIndex(reg, k) EXCEPT ![k] = Append(@, q)]

\* faulty variant of ListRemove: written .pop(), which drops the last queue
ListPop(l, q) == SubSeq(l, 1, Len(l) - 1)

\* faulty variant of ListRemove: the queue is removed from a copy of the list
ListRemoveNothing(l, q) == l

\* list.remove(q): drops the first occurrence; ValueError (caught by the
\* caller) leaves the list as it is
RECURSIVE ListRemove(_, _)
ListRemove(l, q) ==
    IF l = <<>> THEN <<>>
    ELSE IF Head(l) = q THEN Tail(l)
    ELSE <<Head(l)>> \o ListRemove(Tail(l), q)

\* subscribers[username].remove(q) inside try/except ValueError
RegistryRemove(reg, k, q) == [AfterIndex(reg, k) EXCEPT ![k] = ListRemove(@, q)]

\* faulty variant of Snapshot: the loop stops after the first queue
SnapshotFirst(reg, k) ==
    IF k \in DOMAIN reg /\ reg[k] # <<>> THEN <<reg[k][1]>> ELSE <<>>

\* list(subscribers.get(username, [])): the copy sse_publish iterates
Snapshot(reg, k) == RegistryGet(reg, k)

Range(f) == {f[i] : i \in DOMAIN f}

\* no queue occurs twice in the list
NoDuplicates(l) == \A i, j \in DOMAIN l : l[i] = l[j] => i = j

\* the queues listed under key k
Listed(reg, k) == Range(RegistryGet(reg, k))

\* session s's queue is listed somewhere in the registry
InRegistry(s) == \E k \in DOMAIN subscribers : s \in Range(subscribers[k])

\* ------------------------------------------------------------------ queues
\* faulty variant of Put: the Queue is made with maxsize=1, put_nowait on a
\* full one raises Full, which the caller swallows
PutBounded(q, e) == IF Len(q) >= 1 THEN q ELSE Append(q, e)

\* Queue.put_nowait on an unbounded Queue: appends, never raises Full
Put(q, e) == Append(q, e)

\* faulty variant of QueueGet: the item is read and left in the queue
QueueGetPeek(q) == [item |-> Head(q), rest |-> q]

\* faulty variant of QueueGet: a LifoQueue, the newest item comes first
QueueGetNewest(q) == [item |-> q[Len(q)], rest |-> SubSeq(q, 1, Len(q) - 1)]

\* Queue.get on a non-empty Queue: the oldest item, and what is left
QueueGet(q) == [item |-> Head(q), rest |-> Tail(q)]

\* -------------------------------------------------------------------- init
Init ==
    /\ users \in UserDirs
    /\ subscribers = [k \in {} |-> <<>>]
    /\ req = [s \in Sessions |-> [has |-> FALSE, username |-> <<>>]]
    /\ pc = [s \in Sessions |-> "new"]
    /\ key = [s \in Sessions |-> <<>>]
    /\ status = [s \in Sessions |-> 0]
    /\ registered = [s \in Sessions |-> FALSE]
    /\ connected = [s \in Sessions |-> TRUE]
    /\ chan = [s \in Sessions |-> <<>>]
    /\ out = [s \in Sessions |-> <<>>]
    /\ removed = [s \in Sessions |-> 0]
    /\ pubs = <<>>
    /\ tasks = <<>>
    /\ calls = <<>>

\* ------------------------------------------------------------- /api/stream
\* faulty variant of UserExists: the result of the query is not looked at
UserExistsAlways(username) == TRUE

\* User.query.filter_by(username=username).first() is not None
UserExists(username) == username \in users

\* faulty variant of Unknown: no exemption for the administrative key
UnknownNoAdmin(username) == ~UserExists(username)

\* the test of line 88: username != "admin" and not user
Unknown(username) == username # ADMIN /\ ~UserExists(username)

\* the view function api_stream up to the evaluation of subscribers[username]
\* in line 94 (or to the response it returns before that); requests are
\* numbered in order of arrival.  Another thread may run between this lookup
\* and the append that follows it.
ApiStream(s, r) ==
    /\ pc[s] = "new"
    /\ \A t \in Sessions : t < s => pc[t] # "new"
    /\ req' = [req EXCEPT ![s] = r]
    /\ LET username == Strip(ArgsGet(r)) IN
        /\ key' = [key EXCEPT ![s] = username]
        /\ IF username = <<>>
           THEN /\ pc' = [pc EXCEPT ![s] = "rejected"]
                /\ status' = [status EXCEPT ![s] = 400]
                /\ UNCHANGED <<subscribers, registered>>
           ELSE IF Unknown(username)
           THEN /\ pc' = [pc EXCEPT ![s] = "err_ready"]
                /\ status' = [status EXCEPT ![s] = 200]
                /\ UNCHANGED <<subscribers, registered>>
           ELSE /\ subscribers' = AfterIndex(subscribers, username)
                /\ pc' = [pc EXCEPT ![s] = "append"]
                /\ UNCHANGED <<status, registered>>
    /\ UNCHANGED <<tasks, calls, users, connected, chan, out, removed, pubs>>

\* faulty variant of ApiStreamAppend: the queue is appended under the
\* username as it came in the request, not under the stripped one
ApiStreamAppendRaw(s) ==
    /\ pc[s] = "append"
    /\ subscribers' = RegistryAppend(subscribers, ArgsGet(req[s]), s)
    /\ registered' = [registered EXCEPT ![s] = TRUE]
    /\ pc' = [pc EXCEPT ![s] = "ready"]
    /\ status' = [status EXCEPT ![s] = 200]
    /\ UNCHANGED <<tasks, calls, users, req, key, connected, chan, out, removed, pubs>>

\* the rest of api_stream: .append(q) on the list that lookup gave (the list
\* bound to a key is never replaced, so it is the key's list still), and the
\* Response around the generator stream(), which has not started
ApiStreamAppend(s) ==
    /\ pc[s] = "append"
    /\ subscribers' = RegistryAppend(subscribers, key[s], s)
    /\ registered' = [registered EXCEPT ![s] = TRUE]
    /\ pc' = [pc EXCEPT ![s] = "ready"]
    /\ status' = [status EXCEPT ![s] = 200]
    /\ UNCHANGED <<tasks, calls, users, req, key, connected, chan, out, removed, pubs>>

\* the client goes away while its request is open.  Nothing in the server
\* notices: a blocked q.get() (line 100) is not woken, and the server learns
\* of it only when it next writes to the connection or gives the response up.
ClientDisconnect(s) ==
    /\ pc[s] \in {"err_ready", "ready", "get"}
    /\ connected[s]
    /\ connected' = [connected EXCEPT ![s] = FALSE]
    /\ UNCHANGED <<tasks, calls, users, subscribers, req, pc, key, status, registered, chan, out,
                   removed, pubs>>

\* the server iterates _end(): the generator yields the error event and is
\* exhausted (or closed, when the write failed); the response is over and the
\* connection is closed
ErrStream(s) ==
    /\ pc[s] = "err_ready"
    /\ out' = [out EXCEPT ![s] = Append(@, ErrorMsg)]
    /\ pc' = [pc EXCEPT ![s] = "ended"]
    /\ connected' = [connected EXCEPT ![s] = FALSE]
    /\ UNCHANGED <<tasks, calls, users, subscribers, req, key, status, registered, chan,
                   removed, pubs>>

\* the yield at which stream() is suspended lies inside the try block of
\* lines 98-108: the yield of a task message does (line 101), the yield of
\* the hello message does not (line 97)
InTry(yielded) == yielded = "task"

\* the registry after generator.close() on stream() suspended at a yield:
\* GeneratorExit is raised there, and the finally block of lines 104-108
\* runs only if that yield is inside the try
AfterGeneratorExit(reg, yielded, k, q) ==
    IF InTry(yielded) THEN RegistryRemove(reg, k, q) ELSE reg

\* the number of removals after generator.close() at that yield
RemovalsAfterExit(n, reg, yielded, k, q) ==
    IF InTry(yielded) /\ q \in Listed(reg, k) THEN n + 1 ELSE n

\* faulty variant of StreamStart: the Queue the loop reads is created when
\* the generator starts, so what was put into the registered one is not read
StreamStartFreshQueue(s) ==
    /\ pc[s] = "ready"
    /\ connected[s]
    /\ out' = [out EXCEPT ![s] = Append(@, HelloMsg)]
    /\ chan' = [chan EXCEPT ![s] = <<>>]
    /\ pc' = [pc EXCEPT ![s] = "get"]
    /\ UNCHANGED <<tasks, calls, users, subscribers, req, key, status, registered, connected,
                   removed, pubs>>

\* the server's first next() on stream() and its write of what was yielded:
\* the generator runs to the yield of line 97; if the write succeeds the
\* server calls next() again and the generator blocks in q.get(), if the
\* client is gone the write fails and the server closes the generator
StreamStart(s) ==
    /\ pc[s] = "ready"
    /\ out' = [out EXCEPT ![s] = Append(@, HelloMsg)]
    /\ IF connected[s]
       THEN /\ pc' = [pc EXCEPT ![s] = "get"]
            /\ UNCHANGED <<subscribers, removed>>
       ELSE /\ pc' = [pc EXCEPT ![s] = "closed"]
            /\ subscribers' = AfterGeneratorExit(subscribers, "hello", key[s], s)
            /\ removed' = [removed EXCEPT ![s] =
                             RemovalsAfterExit(@, subscribers, "hello", key[s], s)]
    /\ UNCHANGED <<tasks, calls, users, req, key, status, registered, connected, chan, pubs>>

\* faulty variant of StreamDeliver: written without the while loop of line
\* 99, the generator returns after the first event and its cleanup runs
StreamDeliverOnce(s) ==
    /\ pc[s] = "get"
    /\ chan[s] # <<>>
    /\ out' = [out EXCEPT ![s] = Append(@, TaskMsg(QueueGet(chan[s]).item))]
    /\ chan' = [chan EXCEPT ![s] = QueueGet(@).rest]
    /\ pc' = [pc EXCEPT ![s] = "closed"]
    /\ subscribers' = AfterGeneratorExit(subscribers, "task", key[s], s)
    /\ removed' = [removed EXCEPT ![s] =
                     RemovalsAfterExit(@, subscribers, "task", key[s], s)]
    /\ UNCHANGED <<tasks, calls, users, req, key, status, registered, connected, pubs>>

\* q.get() returns an event, the generator yields it (line 101) and the
\* server writes it: if the write succeeds the server calls next() and the
\* generator blocks in q.get() again, if the client is gone the write fails
\* and the server closes the generator
StreamDeliver(s) ==
    /\ pc[s] = "get"
    /\ chan[s] # <<>>
    /\ out' = [out EXCEPT ![s] = Append(@, TaskMsg(QueueGet(chan[s]).item))]
    /\ chan' = [chan EXCEPT ![s] = QueueGet(@).rest]
    /\ IF connected[s]
       THEN UNCHANGED <<pc, subscribers, removed>>
       ELSE /\ pc' = [pc EXCEPT ![s] = "closed"]
            /\ subscribers' = AfterGeneratorExit(subscribers, "task", key[s], s)
            /\ removed' = [removed EXCEPT ![s] =
                             RemovalsAfterExit(@, subscribers, "task", key[s], s)]
    /\ UNCHANGED <<tasks, calls, users, req, key, status, registered, connected, pubs>>

\* the response is given up before its body is iterated (the client is gone,
\* or the request was a HEAD): close() on a generator that never started
\* runs none of its code
StreamClose(s) ==
    /\ pc[s] \in {"err_ready", "ready"}
    /\ ~connected[s]
    /\ pc' = [pc EXCEPT ![s] = "closed"]
    /\ UNCHANGED <<tasks, calls, users, subscribers, req, key, status, registered, connected,
                   chan, out, removed, pubs>>

\* ------------------------------------------------------------- sse_publish
\* a call of sse_publish(username, event) begins: the copy of the key's list
\* is taken (line 75).  targets, gone, before, early and unborn record, for
\* the properties below, what was the case when the copy was taken: which
\* queues were listed under the key, which queues had been removed, which
\* calls had returned, which of the listed queues belonged to a generator
\* that had not yet yielded its hello message, and which sessions' requests
\* had not yet arrived, or not yet come to append their queue
SsePublish(k) ==
    /\ LET snap == Snapshot(subscribers, k) IN
         pubs' = Append(pubs,
                   [key |-> k, snap |-> snap, idx |-> 1, done |-> snap = <<>>,
                    targets |-> {s \in Sessions :
                                   /\ k \in DOMAIN subscribers
                                   /\ \E i \in DOMAIN subscribers[k] :
                                        subscribers[k][i] = s},
                    gone |-> {s \in Sessions : removed[s] > 0},
                    before |-> {e \in DOMAIN pubs : pubs[e].done},
                    early |-> {s \in Sessions :
                                 s \in Listed(subscribers, k) /\ pc[s] = "ready"},
                    unborn |-> {s \in Sessions : pc[s] \in {"new", "append"}}])
    /\ subscribers' = AfterGet(subscribers, k)
    /\ UNCHANGED <<users, req, pc, key, status, registered, connected, chan, out,
                   removed>>

\* some handler calls sse_publish with key k
PubStart(k) ==
    /\ Len(pubs) < MaxEvents
    /\ SsePublish(k)
    /\ UNCHANGED <<tasks, calls>>

\* faulty variant of PubPut: the loop looks each queue of its copy up in the
\* key's list again and passes over those no longer listed
PubPutSkipUnlisted(e) ==
    /\ e \in DOMAIN pubs
    /\ ~pubs[e].done
    /\ LET p == pubs[e]
           q == p.snap[p.idx]
       IN  /\ chan' = IF q \in Listed(subscribers, p.key)
                      THEN [chan EXCEPT ![q] = Put(@, e)]
                      ELSE chan
           /\ pubs' = [pubs EXCEPT ![e].idx = p.idx + 1,
                                   ![e].done = (p.idx = Len(p.snap))]
    /\ UNCHANGED <<tasks, calls, users, subscribers, req, pc, key, status, registered, connected,
                   out, removed>>

\* faulty variant of PubPut: the loop runs over the key's list itself, not
\* over a copy, so it comes to queues appended while it runs
PubPutLive(e) ==
    /\ e \in DOMAIN pubs
    /\ ~pubs[e].done
    /\ LET p == pubs[e]
           live == RegistryGet(subscribers, p.key)
       IN  IF p.idx <= Len(live)
           THEN /\ chan' = [chan EXCEPT ![live[p.idx]] = Put(@, e)]
                /\ pubs' = [pubs EXCEPT ![e].idx = p.idx + 1,
                                        ![e].done = (p.idx >= Len(live))]
           ELSE /\ chan' = chan
                /\ pubs' = [pubs EXCEPT ![e].done = TRUE]
    /\ UNCHANGED <<tasks, calls, users, subscribers, req, pc, key, status, registered, connected,
                   out, removed>>

\* one iteration of the loop of lines 75-79: q.put_nowait(event); the call
\* returns after the last one
PubPut(e) ==
    /\ e \in DOMAIN pubs
    /\ ~pubs[e].done
    /\ LET p == pubs[e] IN
        /\ chan' = [chan EXCEPT ![p.snap[p.idx]] = Put(@, e)]
        /\ pubs' = [pubs EXCEPT ![e].idx = p.idx + 1,
                                ![e].done = (p.idx = Len(p.snap))]
    /\ UNCHANGED <<tasks, calls, users, subscribers, req, pc, key, status, registered, connected,
                   out, removed>>

\* -------------------------------------------------------------------- next
Next ==
    \/ \E s \in Sessions, r \in StreamRequests : ApiStream(s, r)
    \/ \E s \in Sessions : ApiStreamAppend(s)
    \/ \E s \in Sessions : ClientDisconnect(s)
    \/ \E s \in Sessions : ErrStream(s)
    \/ \E s \in Sessions : StreamStart(s)
    \/ \E s \in Sessions : StreamDeliver(s)
    \/ \E s \in Sessions : StreamClose(s)
    \/ \E k \in PublishKeys : PubStart(k)
    \/ \E e \in 1..MaxEvents : PubPut(e)

Spec == Init /\ [][Next]_vars

\* the same, with calls of sse_publish for keys under which nothing can be
\* listed
KeyNext ==
    \/ Next
    \/ \E k \in OtherKeys : PubStart(k)

KeySpec == Init /\ [][KeyNext]_vars

\* what the server and a running sse_publish call do on their own: the server
\* keeps iterating, writing and closing a response, and a call that began
\* finishes its loop.  Requests, disconnects and new publishes are up to the
\* clients.
ServerStep(s) ==
    \/ ApiStreamAppend(s)
    \/ ErrStream(s) \/ StreamStart(s) \/ StreamDeliver(s) \/ StreamClose(s)

FairSpec ==
    /\ Spec
    /\ \A s \in Sessions : WF_vars(ServerStep(s))
    /\ \A e \in 1..MaxEvents : WF_vars(PubPut(e))

\* ------------------------------------------------- the cleanup on its own
\* the cleanup of lines 104-108 as a function of the registry it finds,
\* applied to registries in which the session's queue is listed and to
\* registries in which it is not

\* list.remove(q) raises ValueError when q is not in the list
RemoveRaises(l, q) == q \notin Range(l)

\* faulty variant of Handled: the handler is written except KeyError
HandledKeyError(exc) == exc = "KeyError"

\* the handler of line 107: except ValueError
Handled(exc) == exc = "ValueError"

\* how the cleanup ends: normally, or with the exception of line 106
\* leaving the generator
CleanupEnds(reg, k, q) ==
    IF RemoveRaises(RegistryGet(AfterIndex(reg, k), k), q) /\ ~Handled("ValueError")
    THEN "crashed"
    ELSE "closed"

\* the lists of distinct queues
QueueLists ==
    {l \in UNION {[1..n -> Sessions] : n \in 0..MaxSessions} : NoDuplicates(l)}

\* the registries the program can hold: some keys looked up so far, each
\* queue listed at most once and under one key
Registries ==
    UNION {{reg \in [ks -> QueueLists] :
              \A k1, k2 \in ks : k1 # k2 => Range(reg[k1]) \cap Range(reg[k2]) = {}} :
           ks \in (SUBSET PublishKeys) \ {{}}}

\* every session has registered under a key of the registry, its queue is
\* listed there, and it waits in q.get(), its client still there or gone
CleanupInit ==
    /\ users \in UserDirs
    /\ subscribers \in Registries
    /\ key \in [Sessions -> DOMAIN subscribers]
    /\ \A s \in Sessions : \A k \in DOMAIN subscribers :
          s \in Range(subscribers[k]) => key[s] = k
    /\ req = [s \in Sessions |-> [has |-> TRUE, username |-> key[s]]]
    /\ \A s \in Sessions : InRegistry(s)
    /\ pc = [s \in Sessions |-> "get"]
    /\ removed = [s \in Sessions |-> 0]
    /\ status = [s \in Sessions |-> 200]
    /\ registered = [s \in Sessions |-> TRUE]
    /\ connected \in [Sessions -> BOOLEAN]
    /\ chan = [s \in Sessions |-> <<>>]
    /\ out = [s \in Sessions |-> <<HelloMsg>>]
    /\ pubs = <<>>
    /\ tasks = <<>>
    /\ calls = <<>>

\* the except/finally of lines 102-108 runs for session s, for the first
\* time or once more
Cleanup(s) ==
    /\ pc[s] \in {"get", "closed"}
    /\ ~connected[s]
    /\ subscribers' = AfterGeneratorExit(subscribers, "task", key[s], s)
    /\ removed' = [removed EXCEPT ![s] =
                     RemovalsAfterExit(@, subscribers, "task", key[s], s)]
    /\ pc' = [pc EXCEPT ![s] = CleanupEnds(subscribers, key[s], s)]
    /\ UNCHANGED <<tasks, calls, users, req, key, status, registered, connected, chan, out, pubs>>

CleanupNext == \E s \in Sessions : Cleanup(s)

CleanupSpec == CleanupInit /\ [][CleanupNext]_vars

\* ------------------------------------------------------ the task handlers
\* None, for a user or a task that a lookup did not find
NoUser == <<>>

\* the role init_db gives (lines 153-158)
Role(u) == IF u = ADMIN THEN "admin" ELSE "user"

\* users.id: init_db inserts admin, Yasmin, Hiasmin, Ana, Daniela in this
\* order; None has no id
UserId(u) == IF u = ADMIN THEN 1 ELSE IF u = ANA THEN 4 ELSE 0

\* db.session.get(User, id)
UserById(id) ==
    IF \E u \in users : UserId(u) = id
    THEN CHOOSE u \in users : UserId(u) = id
    ELSE NoUser

\* User.query.filter_by(username=name).first()
UserByName(name) == IF name \in users THEN name ELSE NoUser

Digits == <<"0", "1", "2", "3", "4", "5", "6", "7", "8", "9">>

DigitVal(c) == (CHOOSE i \in DOMAIN Digits : Digits[i] = c) - 1

\* str.isdigit()
IsDigit(s) == s # <<>> /\ \A i \in DOMAIN s : s[i] \in Range(Digits)

\* int(s) of a string of digits
RECURSIVE StrToInt(_)
StrToInt(s) ==
    IF s = <<>> THEN 0
    ELSE 10 * StrToInt(SubSeq(s, 1, Len(s) - 1)) + DigitVal(s[Len(s)])

\* str(n) of n >= 0
RECURSIVE IntToStr(_)
IntToStr(n) ==
    IF n < 10 THEN <<Digits[n + 1]>>
    ELSE IntToStr(n \div 10) \o <<Digits[(n % 10) + 1]>>

\* the place of a row of the tasks table that was deleted
NoTask == [assigned_to |-> NoUser, status |-> "none"]

\* db.session.get(Task, id): the row's number in the table, 0 for None
TaskById(id) == IF id \in DOMAIN tasks /\ tasks[id] # NoTask THEN id ELSE 0

\* an event for sse_publish(key, {"type": type, ...}): task is the task id
\* the event carries (0: none), user the author it names (None: none)
Ev(k, type, task, user) == [key |-> k, type |-> type, task |-> task, user |-> user]

\* the record of a request to a handler: the acting user (the logged-in user,
\* or the user the API request names), the task it is about, whether it
\* committed its change, its HTTP status, the sse_publish calls it still has
\* to make and those it made (e: the number of the call)
Call(handler, user, task, ok, code, todo) ==
    [handler |-> handler, user |-> user, task |-> task, ok |-> ok, code |-> code,
     todo |-> todo, made |-> <<>>]

\* faulty variant of Refuse: the handler tells the admin of a change before
\* it looks at the request
RefuseNotifies(handler, user, code) ==
    /\ calls' = Append(calls, Call(handler, user, 0, FALSE, code,
                                   <<Ev(ADMIN, "changed", 0, NoUser)>>))
    /\ tasks' = tasks

\* a request that is turned down: nothing is committed, nothing published
Refuse(handler, user, code) ==
    /\ calls' = Append(calls, Call(handler, user, 0, FALSE, code, <<>>))
    /\ tasks' = tasks

\* what the requests carry: the logged-in user (None: nobody is logged in),
\* form fields, and whether the token of an API request is accepted
Actors == users \cup {NoUser}
Titles == { <<" ">>, <<"t">> }
Messages == { <<" ">>, <<"m">> }
AssignedRaw == { <<>>, <<"1">>, <<"4", " ">>, <<"9">>, <<"x">> }
TaskIdRaw == { <<"1">>, <<" ", "2">>, <<"x">> }
ApiUsernames == { <<>>, ANA \o <<" ">>, <<"a", "n", "a">>, ADMIN, BOB }

\* faulty variant of CreateTaskPublishes: the admin is told first
CreateTaskPublishesAdminFirst(t, id) ==
    <<Ev(ADMIN, "changed", 0, NoUser)>>
    \o (IF t.assigned_to # NoUser
        THEN <<Ev(t.assigned_to, "created", id, NoUser)>>
        ELSE <<>>)

\* the sse_publish calls of create_task (lines 505-513)
CreateTaskPublishes(t, id) ==
    (IF t.assigned_to # NoUser
     THEN <<Ev(t.assigned_to, "created", id, NoUser)>>
     ELSE <<>>)
    \o <<Ev(ADMIN, "changed", 0, NoUser)>>

\* create_task (lines 468-515), up to its commit
CreateTask(u, title, assigned) ==
    /\ Len(calls) < MaxCalls
    /\ IF u = NoUser
       THEN Refuse("create_task", u, 403)
       ELSE IF Strip(title) = <<>>
       THEN Refuse("create_task", u, 400)
       ELSE LET assigned_to_id == IF Role(u) = "admin"
                                  THEN Strip(assigned)
                                  ELSE IntToStr(UserId(u))
                ass == IF IsDigit(assigned_to_id)
                       THEN UserById(StrToInt(assigned_to_id))
                       ELSE NoUser
                t == [assigned_to |-> ass, status |-> "pendente"]
                id == Len(tasks) + 1
            IN  /\ tasks' = Append(tasks, t)
                /\ calls' = Append(calls, Call("create_task", u, id, TRUE, 302,
                                               CreateTaskPublishes(t, id)))
    /\ UNCHANGED <<users, subscribers, req, pc, key, status, registered, connected,
                   chan, out, removed, pubs>>

\* faulty variant of CompletePublishes: the completed event goes to the
\* task's assignee
CompletePublishesAssignee(username, id) ==
    <<Ev(tasks[id].assigned_to, "completed", id, NoUser),
      Ev(ADMIN, "changed", 0, NoUser)>>

\* the sse_publish calls of mark_task_complete (lines 825-826) and of
\* api_mark_complete (lines 884-885)
CompletePublishes(username, id) ==
    <<Ev(username, "completed", id, NoUser), Ev(ADMIN, "changed", 0, NoUser)>>

\* mark_task_complete (lines 805-828), up to its commits
MarkTaskComplete(u, task_id_raw) ==
    /\ Len(calls) < MaxCalls
    /\ LET raw == Strip(task_id_raw)
           t == IF IsDigit(raw) THEN TaskById(StrToInt(raw)) ELSE 0
       IN  IF u = NoUser
           THEN Refuse("mark_task_complete", u, 302)
           ELSE IF ~IsDigit(raw)
           THEN Refuse("mark_task_complete", u, 400)
           ELSE IF t = 0
           THEN Refuse("mark_task_complete", u, 404)
           ELSE IF UserId(tasks[t].assigned_to) # UserId(u) /\ Role(u) # "admin"
           THEN Refuse("mark_task_complete", u, 403)
           ELSE /\ tasks' = [tasks EXCEPT ![t].status = "concluida"]
                /\ calls' = Append(calls, Call("mark_task_complete", u, t, TRUE, 302,
                                               CompletePublishes(u, t)))
    /\ UNCHANGED <<users, subscribers, req, pc, key, status, registered, connected,
                   chan, out, removed, pubs>>

\* Task.query.filter_by(id=id, assigned_to_id=user.id).first()
TaskOfUser(id, user) ==
    IF TaskById(id) # 0 /\ UserId(tasks[id].assigned_to) = UserId(user)
    THEN id
    ELSE 0

\* api_mark_complete (lines 857-887), up to its commits
ApiMarkComplete(tokenOk, username_raw, task_id_raw) ==
    /\ Len(calls) < MaxCalls
    /\ LET username == Strip(username_raw)
           task_id == Strip(task_id_raw)
           user == UserByName(username)
           t == IF IsDigit(task_id) THEN TaskOfUser(StrToInt(task_id), user) ELSE 0
       IN  IF ~tokenOk
           THEN Refuse("api_mark_complete", NoUser, 403)
           ELSE IF ~(username # <<>> /\ IsDigit(task_id))
           THEN Refuse("api_mark_complete", username, 400)
           ELSE IF user = NoUser \/ t = 0
           THEN Refuse("api_mark_complete", username, 404)
           ELSE /\ tasks' = [tasks EXCEPT ![t].status = "concluida"]
                /\ calls' = Append(calls, Call("api_mark_complete", username, t, TRUE,
                                               200, CompletePublishes(username, t)))
    /\ UNCHANGED <<users, subscribers, req, pc, key, status, registered, connected,
                   chan, out, removed, pubs>>

\* faulty variant of ObservationPublishes: the event goes to whichever of
\* the assignee and the admin did not write the observation
ObservationPublishesOther(t, id, author) ==
    LET target == IF t.assigned_to # NoUser THEN t.assigned_to ELSE ADMIN IN
        (IF target # author
         THEN <<Ev(target, "new_observation", id, author)>>
         ELSE <<>>)
        \o (IF target # ADMIN /\ author # ADMIN
            THEN <<Ev(ADMIN, "new_observation", id, author)>>
            ELSE <<>>)

\* the sse_publish calls of add_task_log (lines 712-715) and of
\* api_add_observation (lines 924-927)
ObservationPublishes(t, id, author) ==
    LET target_username == IF t.assigned_to # NoUser THEN t.assigned_to ELSE ADMIN IN
        <<Ev(target_username, "new_observation", id, author)>>
        \o (IF target_username # ADMIN
            THEN <<Ev(ADMIN, "new_observation", id, author)>>
            ELSE <<>>)

\* add_task_log (lines 694-718), up to its commit; task_id comes from the
\* URL as an integer
AddTaskLog(u, task_id, message) ==
    /\ Len(calls) < MaxCalls
    /\ LET t == TaskById(task_id) IN
           IF u = NoUser
           THEN Refuse("add_task_log", u, 403)
           ELSE IF ~(t # 0 /\ Strip(message) # <<>>)
           THEN Refuse("add_task_log", u, 400)
           ELSE /\ tasks' = tasks
                /\ calls' = Append(calls, Call("add_task_log", u, t, TRUE, 302,
                                               ObservationPublishes(tasks[t], t, u)))
    /\ UNCHANGED <<users, subscribers, req, pc, key, status, registered, connected,
                   chan, out, removed, pubs>>

\* the name api_add_observation looks up (lines 905-907)
SearchUsername(username) ==
    IF Lower(Strip(username)) # ADMIN THEN Capitalize(Strip(username)) ELSE Strip(username)

\* api_add_observation (lines 890-929), up to its commit
ApiAddObservation(tokenOk, username_raw, task_id_raw, message) ==
    /\ Len(calls) < MaxCalls
    /\ LET username == Strip(username_raw)
           task_id == Strip(task_id_raw)
           user == UserByName(SearchUsername(username))
           t == IF IsDigit(task_id) THEN TaskById(StrToInt(task_id)) ELSE 0
       IN  IF ~tokenOk
           THEN Refuse("api_add_observation", NoUser, 403)
           ELSE IF ~(username # <<>> /\ IsDigit(task_id) /\ Strip(message) # <<>>)
           THEN Refuse("api_add_observation", username, 400)
           ELSE IF user = NoUser \/ t = 0
           THEN Refuse("api_add_observation", username, 404)
           ELSE /\ tasks' = tasks
                /\ calls' = Append(calls, Call("api_add_observation", user, t, TRUE,
                                               200, ObservationPublishes(tasks[t], t, user)))
    /\ UNCHANGED <<users, subscribers, req, pc, key, status, registered, connected,
                   chan, out, removed, pubs>>

\* the handler of request h makes its next call of sse_publish; the one it
\* made before has returned
HandlerPublish(h) ==
    /\ h \in DOMAIN calls
    /\ calls[h].todo # <<>>
    /\ \A i \in DOMAIN calls[h].made : pubs[calls[h].made[i].e].done
    /\ SsePublish(Head(calls[h].todo).key)
    /\ calls' = [calls EXCEPT
                   ![h].todo = Tail(@),
                   ![h].made = Append(@, [ev |-> Head(calls[h].todo),
                                          e |-> Len(pubs) + 1])]
    /\ tasks' = tasks

\* the sse_publish calls of emit_alert (lines 544-551)
EmitAlertPublishes(ass, id) ==
    <<Ev(ass, "alert", id, NoUser), Ev(ADMIN, "changed", 0, NoUser)>>

\* emit_alert (lines 518-553), up to its commit
EmitAlert(u, title, assigned) ==
    /\ Len(calls) < MaxCalls
    /\ LET assigned_to_id == Strip(assigned)
           ass == IF IsDigit(assigned_to_id)
                  THEN UserById(StrToInt(assigned_to_id))
                  ELSE NoUser
           id == Len(tasks) + 1
       IN  IF u = NoUser \/ Role(u) # "admin"
           THEN Refuse("emit_alert", u, 403)
           ELSE IF ~(Strip(title) # <<>> /\ IsDigit(assigned_to_id))
           THEN Refuse("emit_alert", u, 400)
           ELSE IF ass = NoUser
           THEN Refuse("emit_alert", u, 400)
           ELSE /\ tasks' = Append(tasks, [assigned_to |-> ass, status |-> "pendente"])
                /\ calls' = Append(calls, Call("emit_alert", u, id, TRUE, 302,
                                               EmitAlertPublishes(ass, id)))
    /\ UNCHANGED <<users, subscribers, req, pc, key, status, registered, connected,
                   chan, out, removed, pubs>>

\* the assignee edit_task leaves the task with (lines 670-677): only the
\* admin's form changes it, and only if its field is not empty
EditAssignee(u, old, assigned) ==
    LET assigned_to_id == Strip(assigned) IN
        IF Role(u) = "admin" /\ assigned_to_id # <<>>
        THEN IF IsDigit(assigned_to_id)
             THEN UserById(StrToInt(assigned_to_id))
             ELSE NoUser
        ELSE old

\* the sse_publish calls of edit_task (lines 681-689)
EditTaskPublishes(t, id) ==
    (IF t.assigned_to # NoUser
     THEN <<Ev(t.assigned_to, "updated", id, NoUser)>>
     ELSE <<>>)
    \o <<Ev(ADMIN, "changed", 0, NoUser)>>

\* edit_task (lines 642-691), up to its commit; task_id comes from the URL
\* as an integer, and the form carries no status field
EditTask(u, task_id, title, assigned) ==
    /\ Len(calls) < MaxCalls
    /\ LET t == TaskById(task_id) IN
           IF u = NoUser
           THEN Refuse("edit_task", u, 403)
           ELSE IF t = 0
           THEN Refuse("edit_task", u, 404)
           ELSE IF Strip(title) = <<>>
           THEN Refuse("edit_task", u, 400)
           ELSE LET row == [assigned_to |-> EditAssignee(u, tasks[t].assigned_to, assigned),
                            status |-> "pendente"]
                IN  /\ tasks' = [tasks EXCEPT ![t] = row]
                    /\ calls' = Append(calls, Call("edit_task", u, t, TRUE, 302,
                                                   EditTaskPublishes(row, t)))
    /\ UNCHANGED <<users, subscribers, req, pc, key, status, registered, connected,
                   chan, out, removed, pubs>>

\* the table without the deleted rows at its end: the id of the next row is
\* one more than the largest id in the table
RECURSIVE TrimTasks(_)
TrimTasks(tbl) ==
    IF tbl # <<>> /\ tbl[Len(tbl)] = NoTask
    THEN TrimTasks(SubSeq(tbl, 1, Len(tbl) - 1))
    ELSE tbl

\* delete_task (lines 720-730), up to its commit
DeleteTask(u, task_id) ==
    /\ Len(calls) < MaxCalls
    /\ LET t == TaskById(task_id) IN
           IF u = NoUser \/ Role(u) # "admin"
           THEN Refuse("delete_task", u, 403)
           ELSE IF t = 0
           THEN Refuse("delete_task", u, 404)
           ELSE /\ tasks' = TrimTasks([tasks EXCEPT ![t] = NoTask])
                /\ calls' = Append(calls, Call("delete_task", u, t, TRUE, 302,
                                               <<Ev(ADMIN, "changed", 0, NoUser)>>))
    /\ UNCHANGED <<users, subscribers, req, pc, key, status, registered, connected,
                   chan, out, removed, pubs>>

\* the handlers at work while one client streams under "admin" and the
\* others stream under "Ana": every session has registered, yielded its
\* hello message and waits in q.get()
AppInit ==
    /\ users \in UserDirs
    /\ key = [s \in Sessions |-> IF s = 1 THEN ADMIN ELSE ANA]
    /\ subscribers = [k \in PublishKeys |->
                        SelectSeq([s \in Sessions |-> s], LAMBDA s : key[s] = k)]
    /\ req = [s \in Sessions |-> [has |-> TRUE, username |-> key[s]]]
    /\ pc = [s \in Sessions |-> "get"]
    /\ status = [s \in Sessions |-> 200]
    /\ registered = [s \in Sessions |-> TRUE]
    /\ connected = [s \in Sessions |-> TRUE]
    /\ chan = [s \in Sessions |-> <<>>]
    /\ out = [s \in Sessions |-> <<HelloMsg>>]
    /\ removed = [s \in Sessions |-> 0]
    /\ pubs = <<>>
    /\ tasks = <<>>
    /\ calls = <<>>

AppNext ==
    \/ \E u \in Actors, title \in Titles, assigned \in AssignedRaw :
          CreateTask(u, title, assigned)
    \/ \E u \in Actors, id \in TaskIdRaw : MarkTaskComplete(u, id)
    \/ \E tokenOk \in BOOLEAN, name \in ApiUsernames, id \in TaskIdRaw :
          ApiMarkComplete(tokenOk, name, id)
    \/ \E u \in Actors, id \in 1..MaxCalls, message \in Messages :
          AddTaskLog(u, id, message)
    \/ \E tokenOk \in BOOLEAN, name \in ApiUsernames, id \in TaskIdRaw,
          message \in Messages : ApiAddObservation(tokenOk, name, id, message)
    \/ \E h \in 1..MaxCalls : HandlerPublish(h)
    \/ \E e \in DOMAIN pubs : PubPut(e)
    \/ \E s \in Sessions : StreamDeliver(s)

AppSpec == AppInit /\ [][AppNext]_vars

\* the same with the handlers that create alerts, edit and delete tasks
PanelNext ==
    \/ AppNext
    \/ \E u \in Actors, title \in Titles, assigned \in AssignedRaw :
          EmitAlert(u, title, assigned)
    \/ \E u \in Actors, id \in 1..MaxCalls, title \in Titles, assigned \in AssignedRaw :
          EditTask(u, id, title, assigned)
    \/ \E u \in Actors, id \in 1..MaxCalls : DeleteTask(u, id)

PanelSpec == AppInit /\ [][PanelNext]_vars

\* -------------------------------------------------------------- properties
\* the events a generator yielded as task messages, in order
RECURSIVE TaskIds(_)
TaskIds(o) ==
    IF o = <<>> THEN <<>>
    ELSE IF Head(o).event = "task"
    THEN <<Head(o).data.id>> \o TaskIds(Tail(o))
    ELSE TaskIds(Tail(o))

\* everything that was ever put into session s's queue, in the order it
\* leaves the queue: what was yielded, then what is still queued
Hist(s) == TaskIds(out[s]) \o chan[s]

Count(e, h) == Cardinality({i \in DOMAIN h : h[i] = e})

\* the session holds a request or a generator that has not finished
Open(s) == pc[s] \in {"err_ready", "ready", "get"}

\* the session is over: its response was refused, ran out, or was closed
Terminated(s) == pc[s] \in {"rejected", "ended", "closed"}

\* the query string carries no username, or only blanks
Blank(r) == ~r.has \/ \A i \in DOMAIN r.username : r.username[i] \in Whitespace

\* C1: every session that registered a queue and has ended, at whatever
\* point after the registration it ended, has had its queue removed from
\* the registry, by exactly one removal.
C1_RemovedExactlyOnce ==
    \A s \in Sessions :
        (registered[s] /\ Terminated(s)) => (~InRegistry(s) /\ removed[s] = 1)

\* C2: a queue is listed in the registry if and only if its session has
\* registered and has not terminated.
C2_ListedIffActive ==
    \A s \in Sessions : InRegistry(s) <=> (registered[s] /\ ~Terminated(s))

\* C3: once the client of a session that waits in its streaming loop has gone
\* away, the session's queue is eventually removed from the registry,
\* whether or not anything is published again.
C3_DisconnectLeadsToRemoval ==
    \A s \in Sessions :
        (pc[s] = "get" /\ ~connected[s]) ~> ~InRegistry(s)

\* C4: when the call that published E1 had returned before the call that
\* published E2 began, no queue hands out E2 before E1: in what a session
\* yielded followed by what its queue still holds, E2 never precedes E1.
C4_FifoPerChannel ==
    \A s \in Sessions :
        \A i, j \in DOMAIN Hist(s) :
            i < j => Hist(s)[j] \notin pubs[Hist(s)[i]].before

C4_Witness ==
    \E s \in Sessions :
        LET ids == TaskIds(out[s]) IN
            /\ Len(ids) = 2
            /\ ids[1] \in pubs[ids[2]].before

\* C5: the queues listed under one key are pairwise distinct, two sessions
\* registered under the same key and both still open are both listed, and a
\* call of sse_publish puts its event exactly once into every queue that was
\* listed under its key when the call began (at most once while it runs).
C5_FanOutOncePerChannel ==
    /\ \A k \in DOMAIN subscribers : NoDuplicates(subscribers[k])
    /\ \A s \in Sessions :
          (registered[s] /\ Open(s)) => s \in Listed(subscribers, key[s])
    /\ \A e \in DOMAIN pubs :
          \A s \in pubs[e].targets :
              /\ Count(e, Hist(s)) <= 1
              /\ pubs[e].done => Count(e, Hist(s)) = 1

C5_Witness ==
    \E e \in DOMAIN pubs :
        /\ pubs[e].done
        /\ Cardinality(pubs[e].targets) = 2
        /\ \A s \in pubs[e].targets : Count(e, Hist(s)) = 1

\* C6: a call of sse_publish to a key under which no queue is listed changes
\* neither the registry (no entry appears for the key) nor any queue, and
\* has returned as soon as it has looked the key up.
C6_PublishToNobodyIsNoOp ==
    [][\A e \in DOMAIN pubs' :
          (e \notin DOMAIN pubs /\ pubs'[e].targets = {}) =>
              /\ subscribers' = subscribers
              /\ chan' = chan
              /\ out' = out
              /\ pubs'[e].done]_vars

C6_Witness ==
    \E e \in DOMAIN pubs :
        /\ pubs[e].targets = {} /\ pubs[e].done
        /\ pubs[e].key \in DOMAIN subscribers
        /\ subscribers[pubs[e].key] = <<>>
        /\ \E s \in Sessions : key[s] = pubs[e].key /\ removed[s] = 1

\* C7: an event whose sse_publish call began after a session's queue had
\* been removed from its key's list is never put into that queue, and so
\* never yielded by that session.
C7_NoDeliveryAfterRemoval ==
    \A e \in DOMAIN pubs :
        \A s \in pubs[e].gone : Count(e, Hist(s)) = 0

C7_Witness ==
    \E e \in DOMAIN pubs :
        /\ pubs[e].done
        /\ \E s \in pubs[e].gone : key[s] = pubs[e].key
        /\ \E s \in pubs[e].targets : Count(e, Hist(s)) = 1

\* C8: a session whose key is not empty, is not "admin" and names no user
\* never registers a queue and never gets an entry in the registry; it is
\* answered with a stream that yields the error event, and only that: no
\* hello, no task, and nothing more once the stream has ended.
C8_UnknownSubscriber ==
    \A s \in Sessions :
        (pc[s] # "new" /\ key[s] # <<>> /\ key[s] # ADMIN /\ key[s] \notin users) =>
            /\ ~registered[s]
            /\ ~InRegistry(s)
            /\ key[s] \notin DOMAIN subscribers
            /\ chan[s] = <<>>
            /\ pc[s] \in {"err_ready", "ended", "closed"}
            /\ pc[s] \in {"err_ready", "closed"} => out[s] = <<>>
            /\ pc[s] = "ended" => out[s] = <<ErrorMsg>>

C8_Witness ==
    \E s \in Sessions :
        /\ key[s] = BOB
        /\ pc[s] = "ended"
        /\ out[s] = <<ErrorMsg>>
        /\ DOMAIN subscribers # {}

\* C9: a session whose key is "admin" registers a queue under "admin" (its
\* request goes on to the append of line 94 and, once it has made it, is
\* answered 200) and its stream begins with the hello message, whether or
\* not the users table has an admin row.
C9_AdminAlwaysRegisters ==
    \A s \in Sessions :
        (pc[s] # "new" /\ key[s] = ADMIN) =>
            /\ pc[s] \in {"append", "ready", "get", "closed"}
            /\ pc[s] = "append" => ADMIN \in DOMAIN subscribers
            /\ pc[s] # "append" => (registered[s] /\ status[s] = 200)
            /\ pc[s] = "ready" => (out[s] = <<>> /\ s \in Listed(subscribers, ADMIN))
            /\ pc[s] = "get" => (out[s][1] = HelloMsg /\ s \in Listed(subscribers, ADMIN))
            /\ pc[s] = "closed" => (out[s] = <<>> \/ out[s][1] = HelloMsg)

C9_Witness ==
    \E s \in Sessions :
        /\ ADMIN \notin users
        /\ key[s] = ADMIN
        /\ pc[s] = "get"
        /\ out[s] = <<HelloMsg>>
        /\ s \in Listed(subscribers, ADMIN)

\* C10: a request without a username, or with a blank one, is answered 400
\* by the step that handles it, which leaves the registry and every queue as
\* they were and creates no stream; nothing happens on that request later.
C10_MissingUsernameRejected ==
    [][\A s \in Sessions :
          /\ (pc[s] = "new" /\ pc'[s] # "new" /\ Blank(req'[s])) =>
                /\ pc'[s] = "rejected"
                /\ status'[s] = 400
                /\ subscribers' = subscribers
                /\ registered' = registered
                /\ chan' = chan
                /\ out' = out
          /\ pc[s] = "rejected" =>
                /\ pc'[s] = "rejected"
                /\ status'[s] = 400
                /\ out'[s] = <<>>
                /\ ~registered'[s]]_vars

C10_Witness ==
    \E s, u \in Sessions :
        /\ pc[s] = "rejected" /\ ~req[s].has
        /\ pc[u] = "rejected" /\ req[u].has /\ req[u].username # <<>>
        /\ DOMAIN subscribers = {}

\* C11: a generator of a registered session yields nothing before its hello
\* message, yields it exactly once, as its first message, with payload
\* {"ok": true}, and yields only task messages after it.  An event whose
\* sse_publish call found the session's queue listed while the hello was
\* still to come is not lost: once the call has returned it is in what the
\* session yielded after the hello or in its queue, exactly once, and such
\* events keep the order in which they were published.
C11_HelloFirst ==
    \A s \in Sessions :
        registered[s] =>
            /\ pc[s] = "ready" => out[s] = <<>>
            /\ pc[s] = "get" => out[s] # <<>>
            /\ out[s] # <<>> =>
                  /\ out[s][1] = HelloMsg
                  /\ \A i \in 2..Len(out[s]) : out[s][i].event = "task"
            /\ \A e \in DOMAIN pubs :
                  s \in pubs[e].early =>
                      /\ pubs[e].done => Count(e, Hist(s)) = 1
                      /\ \A i, j \in DOMAIN Hist(s) :
                            (Hist(s)[i] = e /\ Hist(s)[j] \in pubs[e].before) => j < i

C11_Witness ==
    \E s \in Sessions :
        /\ Len(pubs) = 2
        /\ s \in pubs[1].early /\ s \in pubs[2].early
        /\ 1 \in pubs[2].before
        /\ out[s] = <<HelloMsg, TaskMsg(1), TaskMsg(2)>>

\* C12: a call of sse_publish that has not returned can always take its next
\* step, whatever the sessions of the queues in its copy are doing (not yet
\* started, waiting, behind, disconnected, closed); every put it has made
\* put the event into that queue; and it returns when it has made one put
\* for every queue of its copy.
C12_PublishNeverBlocks ==
    \A e \in DOMAIN pubs :
        LET p == pubs[e] IN
            /\ p.idx \in 1..(Len(p.snap) + 1)
            /\ p.done <=> p.idx > Len(p.snap)
            /\ ~p.done => ENABLED PubPut(e)
            /\ \A i \in 1..(p.idx - 1) : Count(e, Hist(p.snap[i])) = 1

C12_Witness ==
    \E e \in DOMAIN pubs :
        /\ pubs[e].done
        /\ \E s, t \in pubs[e].targets :
              /\ pc[s] = "closed" /\ Count(e, chan[s]) = 1
              /\ pc[t] = "ready" /\ ~connected[t] /\ Len(chan[t]) = 2

\* C13: whatever way the lookup and the append of registrations, the
\* removals and the calls of sse_publish interleave, every session that has
\* appended its queue and has not terminated is listed under its key, once;
\* and the registry lists nothing else than queues that were appended, each
\* under the key of its session.
C13_NoLostSubscriber ==
    /\ \A s \in Sessions :
          (registered[s] /\ ~Terminated(s)) =>
              /\ key[s] \in DOMAIN subscribers
              /\ Count(s, subscribers[key[s]]) = 1
    /\ \A k \in DOMAIN subscribers :
          \A s \in Range(subscribers[k]) : registered[s] /\ key[s] = k

\* session 1 looked its key up when the key was not in the registry, session
\* 2 then arrived, looked the same key up and appended before session 1 did,
\* and a call of sse_publish took its copy between the two appends
C13_Witness ==
    \E e \in DOMAIN pubs :
        /\ key[1] = key[2] /\ pubs[e].key = key[1]
        /\ subscribers[key[1]] = <<2, 1>>
        /\ pubs[e].snap = <<2>> /\ ~pubs[e].done
        /\ ~Terminated(1) /\ ~Terminated(2)

\* the list l without the queue q, the other queues in their order
Without(l, q) == SelectSeq(l, LAMBDA t : t # q)

C15_AtMostOncePerChannel ==
    \A s \in Sessions :
        /\ NoDuplicates(Hist(s))
        /\ (pc[s] = "get" /\ ~connected[s] /\ chan[s] # <<>>) =>
              /\ ENABLED (StreamDeliver(s) /\ pc'[s] = "closed")
              /\ ~ENABLED (StreamDeliver(s) /\ pc'[s] # "closed")
        /\ pc[s] = "closed" => ~ENABLED (StreamStart(s) \/ StreamDeliver(s))

\* the write of event 1 failed and ended the session; event 2, queued behind
\* it, was not yielded
C15_Witness ==
    \E s \in Sessions :
        /\ pc[s] = "closed" /\ removed[s] = 1
        /\ out[s] = <<HelloMsg, TaskMsg(1)>>
        /\ chan[s] = <<2>>

\* C16: when the cleanup of lines 104-108 runs for a session whose queue is
\* not in its key's list, it ends normally and changes nothing: the
\* registry, with every other queue in it, and all sessions are as before.
\* When the queue is in the list, the cleanup ends normally too and takes
\* out that queue only.
C16_RemoveAbsentIsNoOp ==
    [][\A s \in Sessions :
          Cleanup(s) =>
              /\ pc'[s] = "closed"
              /\ \A t \in Sessions \ {s} : pc'[t] = pc[t]
              /\ IF s \in Listed(subscribers, key[s])
                 THEN subscribers' =
                        [subscribers EXCEPT ![key[s]] = Without(@, s)]
                 ELSE subscribers' = subscribers /\ removed' = removed]_vars

\* the cleanup ran for session s and removed its queue; it can run again,
\* while another session's queue is listed under the same key
C16_Witness ==
    \E s, t \in Sessions :
        /\ s # t /\ key[s] = key[t]
        /\ pc[s] = "closed" /\ removed[s] = 1 /\ ~InRegistry(s)
        /\ pc[t] = "get" /\ subscribers[key[t]] = <<t>>
        /\ ENABLED Cleanup(s)

\* C17: an event whose sse_publish call took its copy before a session had
\* appended its queue is never put into that queue, and so never yielded by
\* that session: a queue holds nothing before it is appended, and all that a
\* session is ever handed are events whose copy held its queue.
C17_LateSubscriberMissesEarlier ==
    /\ \A e \in DOMAIN pubs :
          \A s \in pubs[e].unborn : Count(e, Hist(s)) = 0
    /\ \A s \in Sessions :
          /\ ~registered[s] => Hist(s) = <<>>
          /\ \A i \in DOMAIN Hist(s) : s \in pubs[Hist(s)[i]].targets

\* event 1 went to session t before session s appended its queue under the
\* same key; s has since been handed event 2 and nothing else
C17_Witness ==
    \E s, t \in Sessions :
        /\ Len(pubs) = 2 /\ pubs[1].done /\ pubs[2].done
        /\ pubs[1].key = key[s] /\ pubs[2].key = key[s]
        /\ s \in pubs[1].unborn /\ t \in pubs[1].targets
        /\ Hist(t) = <<1, 2>>
        /\ out[s] = <<HelloMsg, TaskMsg(2)>> /\ chan[s] = <<>>

\* request h committed its change and its handler has made all its calls of
\* sse_publish
Finished(h) == calls[h].ok /\ calls[h].todo = <<>>

\* the places, among the sse_publish calls request h made, of the events of
\* the given type
MadeOfType(h, type) == {i \in DOMAIN calls[h].made : calls[h].made[i].ev.type = type}

\* the keys request h published events of the given type to
KeysOfType(h, type) == {calls[h].made[i].ev.key : i \in MadeOfType(h, type)}

\* the events session s's generator yielded, as published
Received(s) ==
    LET made == UNION {Range(calls[h].made) : h \in DOMAIN calls} IN
        {m.ev : m \in {x \in made : x.e \in Range(TaskIds(out[s]))}}

\* request h added an observation
Observation(h) ==
    /\ calls[h].handler \in {"add_task_log", "api_add_observation"}
    /\ Finished(h)

\* C18 as claimed: when an observation has been added to a task, the
\* new_observation event was published to the key of the party that did not
\* write it (to the assignee's when the admin wrote it, to "admin" when the
\* assignee wrote it) and not to the author's own key.
C18_ObservationToOtherParty ==
    \A h \in DOMAIN calls :
        Observation(h) =>
            LET author == calls[h].user
                assignee == tasks[calls[h].task].assigned_to
                keys == KeysOfType(h, "new_observation")
            IN  /\ author \notin keys
                /\ (author = ADMIN /\ assignee \notin {NoUser, ADMIN}) => assignee \in keys
                /\ (author = assignee /\ author # ADMIN) => ADMIN \in keys

\* C18 as amended: when an observation has been added to a task, the
\* handler published a new_observation event, carrying the task id and the
\* author, to the assignee's key ("admin" if the task has no assignee) and
\* then, unless that key is "admin", one more to "admin", and nothing else,
\* whoever the author is; so the author's own key is among the keys whenever
\* the author is the assignee or the admin.
C18_ObservationToAssigneeAndAdmin ==
    \A h \in DOMAIN calls :
        Observation(h) =>
            LET author == calls[h].user
                assignee == tasks[calls[h].task].assigned_to
                target == IF assignee # NoUser THEN assignee ELSE ADMIN
                made == calls[h].made
            IN  /\ \A i \in DOMAIN made :
                      /\ made[i].ev.type = "new_observation"
                      /\ made[i].ev.task = calls[h].task
                      /\ made[i].ev.user = author
                /\ [i \in DOMAIN made |-> made[i].ev.key] =
                      IF target = ADMIN THEN <<ADMIN>> ELSE <<target, ADMIN>>
                /\ (author = assignee \/ author = ADMIN) =>
                      author \in KeysOfType(h, "new_observation")

\* Ana wrote an observation on her own task; the event went to "Ana" and to
\* "admin", and her own client and the admin's client were both sent it
C18_Witness ==
    \E h \in DOMAIN calls :
        /\ Observation(h)
        /\ calls[h].user = ANA
        /\ tasks[calls[h].task].assigned_to = ANA
        /\ \A s \in Sessions :
              Received(s) = {Ev(key[s], "new_observation", calls[h].task, ANA)}

\* C19: when create_task has created a task and made its calls, it has
\* published exactly one changed event, to "admin"; if the task has an
\* assignee it has published exactly one created event, to the assignee's
\* key and carrying the task's id, in a call that had returned before the
\* call for the changed event began; if the task has no assignee it has
\* published no created event.  While it is still at work it has published
\* no more than that.
C19_CreatePublishes ==
    \A h \in DOMAIN calls :
        (calls[h].handler = "create_task" /\ calls[h].ok) =>
            LET assignee == tasks[calls[h].task].assigned_to
                made == calls[h].made
                created == MadeOfType(h, "created")
                changed == MadeOfType(h, "changed")
            IN  /\ created \cup changed = DOMAIN made
                /\ Cardinality(changed) <= 1
                /\ Cardinality(created) <= IF assignee # NoUser THEN 1 ELSE 0
                /\ \A i \in changed : made[i].ev.key = ADMIN
                /\ \A i \in created :
                      /\ made[i].ev.key = assignee
                      /\ made[i].ev.task = calls[h].task
                /\ \A i \in created : \A j \in changed :
                      /\ made[i].e < made[j].e
                      /\ made[i].e \in pubs[made[j].e].before
                /\ Finished(h) =>
                      /\ Cardinality(changed) = 1
                      /\ Cardinality(created) = IF assignee # NoUser THEN 1 ELSE 0

\* the admin created a task for Ana and a task for nobody: Ana's client was
\* sent the one created event, the admin's client the two changed events
C19_Witness ==
    /\ Len(calls) = 2
    /\ \A h \in DOMAIN calls :
          calls[h].handler = "create_task" /\ calls[h].user = ADMIN /\ Finished(h)
    /\ tasks[1].assigned_to = ANA /\ tasks[2].assigned_to = NoUser
    /\ \A s \in Sessions :
          Received(s) = IF key[s] = ANA
                        THEN {Ev(ANA, "created", 1, NoUser)}
                        ELSE {Ev(ADMIN, "changed", 0, NoUser)}
    /\ Len(TaskIds(out[1])) = 2

\* request h completed a task
Completion(h) ==
    /\ calls[h].handler \in {"mark_task_complete", "api_mark_complete"}
    /\ Finished(h)

\* C20: when mark_task_complete or api_mark_complete has marked a task
\* complete and made its calls, it has published exactly one completed
\* event; the event carries the task's id and went to the key of the acting
\* user (the logged-in user, or the username the API request gave), whoever
\* the task is assigned to.
C20_CompletedToActingUser ==
    \A h \in DOMAIN calls :
        Completion(h) =>
            LET made == calls[h].made
                completed == MadeOfType(h, "completed")
            IN  /\ tasks[calls[h].task].status = "concluida"
                /\ Cardinality(completed) = 1
                /\ \A i \in completed :
                      /\ made[i].ev.task = calls[h].task
                      /\ made[i].ev.key = calls[h].user

\* the admin completed the task that is assigned to Ana: the completed
\* event was sent to the admin's client, and not to Ana's
C20_Witness ==
    \E h \in DOMAIN calls :
        /\ Completion(h)
        /\ calls[h].handler = "mark_task_complete"
        /\ calls[h].user = ADMIN
        /\ tasks[calls[h].task].assigned_to = ANA
        /\ Ev(ADMIN, "completed", calls[h].task, NoUser) \in Received(1)
        /\ \A s \in Sessions \ {1} :
              Received(s) = {Ev(ANA, "created", calls[h].task, NoUser)}

\* C21: under fair scheduling of the server, every event that is in the
\* queue of a session waiting in its loop is eventually yielded by that
\* session as a task message, once, unless the client goes away; and the
\* loop is left only when the client has gone away.
C21_EnqueuedIsDelivered ==
    /\ \A s \in Sessions : \A e \in 1..MaxEvents :
          (pc[s] = "get" /\ Count(e, chan[s]) > 0) ~>
              (Count(e, TaskIds(out[s])) = 1 \/ ~connected[s])
    /\ [][\A s \in Sessions :
            (pc[s] = "get" /\ pc'[s] # "get") => ~connected[s]]_vars

\* a session whose client is still there has yielded both events, in the
\* order of their calls, and waits for more
C21_Witness ==
    \E s \in Sessions :
        /\ connected[s] /\ pc[s] = "get"
        /\ Len(pubs) = MaxEvents /\ \A e \in DOMAIN pubs : pubs[e].done
        /\ TaskIds(out[s]) = [e \in 1..MaxEvents |-> e]
        /\ chan[s] = <<>>

\* C22: a call of sse_publish works on the copy of the key's list it took
\* when it began: the copy holds exactly the queues listed under the key at
\* that moment, each once; whatever registrations and removals happen while
\* the call runs, it can always make its next put, the event is in exactly
\* the queues of the copy that the loop has passed, once in each, and in no
\* other queue, so that when the call has returned the queues that got the
\* event are those of the copy; and a queue that was removed is never listed
\* again.
C22_SnapshotSemantics ==
    /\ \A e \in DOMAIN pubs :
          LET p == pubs[e] IN
              /\ Range(p.snap) = p.targets
              /\ NoDuplicates(p.snap)
              /\ ~p.done => ENABLED PubPut(e)
              /\ \A s \in Sessions :
                    Count(e, Hist(s)) =
                        IF \E i \in 1..(p.idx - 1) : p.snap[i] = s THEN 1 ELSE 0
              /\ p.done => {s \in Sessions : Count(e, Hist(s)) > 0} = p.targets
    /\ \A s \in Sessions : removed[s] > 0 => ~InRegistry(s)

\* a call took its copy, which holds the queue of session s; before its
\* first put, s was torn down and its queue removed, and session t, whose
\* request had not come to its append, appended its queue under the key
C22_Witness ==
    \E e \in DOMAIN pubs : \E s, t \in Sessions :
        /\ ~pubs[e].done /\ pubs[e].idx = 1 /\ pubs[e].snap = <<s>>
        /\ s \notin pubs[e].gone /\ removed[s] = 1
        /\ t \in pubs[e].unborn /\ t \in Listed(subscribers, pubs[e].key)

\* C23: a request that a handler turns down (nobody logged in, no admin
\* role, bad token, invalid input, unknown task or user) changes no task,
\* begins no call of sse_publish, has none left to make, and leaves the
\* registry, every queue and every stream as they were, in the step that
\* handles it and ever after; and every call of sse_publish is made by a
\* request whose change had been committed before, for the event that
\* request has next to publish.
C23_RejectedPublishesNothing ==
    [][/\ (Len(calls') > Len(calls) /\ ~calls'[Len(calls')].ok) =>
             /\ calls'[Len(calls')].todo = <<>>
             /\ calls'[Len(calls')].code \in {302, 400, 403, 404}
             /\ tasks' = tasks
             /\ pubs' = pubs
             /\ subscribers' = subscribers
             /\ chan' = chan
             /\ out' = out
       /\ \A h \in DOMAIN calls :
             ~calls[h].ok => (calls'[h] = calls[h] /\ calls[h].made = <<>>)
       /\ Len(pubs') > Len(pubs) =>
             \E h \in DOMAIN calls :
                 /\ calls[h].ok
                 /\ calls[h].todo # <<>>
                 /\ pubs'[Len(pubs')].key = Head(calls[h].todo).key
                 /\ calls'[h].made =
                       Append(calls[h].made,
                              [ev |-> Head(calls[h].todo), e |-> Len(pubs')])]_vars

\* the admin created a task for Ana, and Ana's request to delete a task
\* was refused for want of the admin role: the two events of the creation
\* are all that was published, and the task is still there
C23_Witness ==
    /\ Len(calls) = 2
    /\ calls[1].handler = "create_task" /\ Finished(1)
    /\ calls[2].handler = "delete_task" /\ ~calls[2].ok
    /\ calls[2].user = ANA /\ calls[2].code = 403
    /\ TaskById(1) = 1 /\ tasks[1].assigned_to = ANA
    /\ Len(pubs) = 2 /\ pubs[1].done /\ pubs[2].done
    /\ \A s \in Sessions : Len(Hist(s)) = 1

\* C24: a step of a call sse_publish(K, E), its lookup or one of its puts,
\* leaves the registry as it was, with the lists of all keys, and changes
\* no queue but one that was appended under exactly the key K, to which it
\* appends E; it changes no stream.  So all that a session is ever handed
\* was published to its own key, the very same string.
C24_KeyIsolation ==
    /\ [](\A s \in Sessions :
            \A i \in DOMAIN Hist(s) : pubs[Hist(s)[i]].key = key[s])
    /\ [][\A e \in DOMAIN pubs' :
            (e \notin DOMAIN pubs \/ pubs'[e] # pubs[e]) =>
                /\ subscribers' = subscribers
                /\ out' = out
                /\ \A s \in Sessions :
                      chan'[s] # chan[s] =>
                          /\ registered[s]
                          /\ key[s] = pubs'[e].key
                          /\ chan'[s] = Append(chan[s], e)]_vars

\* an event was published to "ana" and then one to "Ana", while a session
\* was listed under "Ana" and another under "admin": the session of "Ana"
\* was handed the second event only, the session of "admin" nothing
C24_Witness ==
    \E s, t \in Sessions :
        /\ Len(pubs) = 2 /\ pubs[1].done /\ pubs[2].done
        /\ pubs[1].key = Lower(ANA) /\ pubs[2].key = ANA
        /\ key[s] = ANA /\ s \notin pubs[1].unborn /\ Hist(s) = <<2>>
        /\ key[t] = ADMIN /\ t \in Listed(subscribers, ADMIN) /\ Hist(t) = <<>>
        /\ t \notin pubs[1].unborn

\* C25: in every reachable state a queue occurs at most once in the whole
\* registry, under one key and at one place of that key's list; the key is
\* the one its session's request was validated for, the stripped username;
\* and every key of the registry, its list empty or not, is "admin" or the
\* name of a user in the users table.
C25_RegistryWellFormed ==
    /\ \A k1, k2 \in DOMAIN subscribers :
          \A i \in DOMAIN subscribers[k1] : \A j \in DOMAIN subscribers[k2] :
              subscribers[k1][i] = subscribers[k2][j] => (k1 = k2 /\ i = j)
    /\ \A k \in DOMAIN subscribers :
          /\ k = ADMIN \/ k \in users
          /\ \A s \in Range(subscribers[k]) :
                /\ k = key[s]
                /\ k = Strip(ArgsGet(req[s]))
                /\ ~Unknown(k)

\* with no admin row in the users table, one queue is listed under "admin"
\* and one under "Ana", whose request gave the name with a blank after it
C25_Witness ==
    \E s, t \in Sessions :
        /\ ADMIN \notin users
        /\ DOMAIN subscribers = {ADMIN, ANA}
        /\ subscribers[ADMIN] = <<s>> /\ subscribers[ANA] = <<t>>
        /\ req[t].username = ANA \o <<" ">>

====
